---- MODULE Spec2Model ----
(***************************************************************************)
(* voctrain: the training / exam state machine of session.py, the          *)
(* correction store and progress record of savestate.py, menu.choose and   *)
(* the load / run / save lifecycle of main.py.                             *)
(*                                                                         *)
(* A Python str is a sequence of character codes, so that str.lower() is   *)
(* computed and not assumed.  A Python set is a set, a list a sequence, a  *)
(* dict a function on its key set.                                         *)
(***************************************************************************)
EXTENDS Integers, Sequences, FiniteSets, TLC

VARIABLES
    voc_file,      \* TraineeState._current_voc
    voc_states,    \* TraineeState._voc_states: file name -> VocState
    voctable,      \* run_session: the loaded vocabulary table (<<>> for None)
    pc,            \* where the program stands (which input() it blocks in)
    vocdict,       \* _train/_take_exam: the words still to be translated
    testwords,     \* the shuffled order of the running round / exam
    num,           \* position in testwords (1-based)
    numwords,      \* _train: size of the running round
    answer,        \* the lower-cased answer just read
    translations,  \* the valid translations computed for the prompted word
    out,           \* what the last step printed (its verdict)
    statefile,     \* main.py: content of trainee.pkl ("none" when absent)
    writes,        \* main.py: number of pickle.dump calls made
    round,         \* history: number of the running drill round
    hist,          \* history: what happened to each word in round 1 (kept through round 2)
    correct,       \* history: the words answered correctly in this drill
    vstate0,       \* history: the VocState when the drill / exam started
    args,          \* direct calls of the VocState methods: the last call
    decision,      \* _modify_translation: the decision taken by the last step
    drilled,       \* history: <<vocabulary, level>> of the drills that ended AllCorrect
    productive,    \* history: every finished round of this drill had a correct answer
    heap           \* the set objects of the VocStates and of the call arguments

vars == << voc_file, voc_states, voctable, pc, vocdict, testwords, num,
           numwords, answer, translations, out, statefile, writes,
           round, hist, correct, vstate0, args, decision, drilled,
           productive, heap >>

-----------------------------------------------------------------------------
(* Program constants *)

\* session.py:16 sets 10; the source allows lowering it ("can be lowered
\* when testing"), and a permutation of 10 words is out of reach.
NUMWORDS == 3

MAXLEVEL == 10

(* Bounds of the model *)

\* stored corrections (additions plus removals) of a vocabulary that the
\* user of the menu-driven program goes up to
MaxMenuModifs == 0

\* the same when the engines are called directly
MaxModifs == 2

\* the round counter stops counting here
RoundCap == 3

\* direct calls of the store: number of distinct strings, length of a
\* default translation list
PoolSize == 2

MaxLen == 2

\* _setup_test called directly: number of lines of the vocabulary
MaxTable == 4

\* the VocState methods on set objects: number of distinct strings
MaxStrings == 1

-----------------------------------------------------------------------------
(* Strings *)

\* str.lower() on ASCII: 'A'..'Z' (65..90) go to 'a'..'z'
lower(s) == [i \in DOMAIN s |-> IF s[i] \in 65..90 THEN s[i] + 32 ELSE s[i]]

\* what a user may type with the shift key held: 'a'..'z' go to 'A'..'Z'
Shifted(s) == [i \in DOMAIN s |-> IF s[i] \in 97..122 THEN s[i] - 32 ELSE s[i]]

\* set(list)
set(list) == {list[i] : i \in DOMAIN list}

\* all permutations of a finite set, as sequences (random.shuffle)
Perms(S) ==
    {f \in [1..Cardinality(S) -> S] : \A i, j \in 1..Cardinality(S) : f[i] = f[j] => i = j}

\* dict(list of pairs): a later pair with the same key replaces an earlier one
dict(pairs) ==
    [k \in {pairs[i][1] : i \in DOMAIN pairs} |->
        LET last == CHOOSE i \in DOMAIN pairs :
                        /\ pairs[i][1] = k
                        /\ \A j \in DOMAIN pairs : pairs[j][1] = k => j <= i
        IN  pairs[last][2]]

\* list[a:b] with 0-based Python slice indices, clipped to the list
slice(list, a, b) ==
    LET lo == IF a < Len(list) THEN a ELSE Len(list)
        hi == IF b < Len(list) THEN b ELSE Len(list)
    IN  [i \in 1..(hi - lo) |-> list[lo + i]]

\* a function without one key (del d[k])
del(d, k) == [x \in DOMAIN d \ {k} |-> d[x]]

-----------------------------------------------------------------------------
(* savestate.py: VocState *)

\* VocState.__init__
VocState == [level |-> 0, qualified |-> FALSE, extra_trans |-> << >>]

\* the (addset, rmset) pair of a word, a fresh pair of empty sets when absent
entry(extra_trans, engword) ==
    IF engword \in DOMAIN extra_trans THEN extra_trans[engword] ELSE << {}, {} >>

\* change_translation without its last line "rmset -= add"
change_translation_keeps_overlap(extra_trans, engword, add, remove) ==
    LET cur     == entry(extra_trans, engword)
        addset1 == cur[1] \cup add
        addset2 == addset1 \ remove
        rmset1  == cur[2] \cup remove
    IN  [w \in DOMAIN extra_trans \cup {engword} |->
            IF w = engword THEN << addset2, rmset1 >> ELSE extra_trans[w]]

\* change_translation with "addset ^= add" for "addset |= add"
change_translation_toggles(extra_trans, engword, add, remove) ==
    LET cur     == entry(extra_trans, engword)
        addset1 == (cur[1] \ add) \cup (add \ cur[1])
        addset2 == addset1 \ remove
        rmset1  == cur[2] \cup remove
        rmset2  == rmset1 \ add
    IN  [w \in DOMAIN extra_trans \cup {engword} |->
            IF w = engword THEN << addset2, rmset2 >> ELSE extra_trans[w]]

\* VocState.change_translation, on the _extra_trans dict
change_translation(extra_trans, engword, add, remove) ==
    LET cur     == entry(extra_trans, engword)     \* setdefault
        addset1 == cur[1] \cup add                 \* addset |= add
        addset2 == addset1 \ remove                \* addset -= remove
        rmset1  == cur[2] \cup remove              \* rmset |= remove
        rmset2  == rmset1 \ add                    \* rmset -= add
    IN  [w \in DOMAIN extra_trans \cup {engword} |->
            IF w = engword THEN << addset2, rmset2 >> ELSE extra_trans[w]]

\* get_modified_translations without "result -= rmset"
get_modified_translations_no_removal(extra_trans, engword, translist) ==
    set(translist) \cup entry(extra_trans, engword)[1]

\* VocState.get_modified_translations
get_modified_translations(extra_trans, engword, translist) ==
    LET cur     == entry(extra_trans, engword)     \* .get(engword, (set(), set()))
        result1 == set(translist)
        result2 == result1 \cup cur[1]             \* result |= addset
        result3 == result2 \ cur[2]                \* result -= rmset
    IN  result3

\* a reset that forgets the additions of the word but keeps its removals
reset_modifications_keeps_removals(extra_trans, engword) ==
    IF engword \in DOMAIN extra_trans
    THEN [extra_trans EXCEPT ![engword] = << {}, @[2] >>]
    ELSE extra_trans

\* VocState.reset_modifications
reset_modifications(extra_trans, engword) ==
    IF engword \in DOMAIN extra_trans THEN del(extra_trans, engword) ELSE extra_trans

\* VocState.num_of_modifs
num_of_modifs(extra_trans) ==
    LET RECURSIVE sum(_)
        sum(W) == IF W = {} THEN 0
                  ELSE LET w == CHOOSE v \in W : TRUE
                       IN  Cardinality(extra_trans[w][1] \cup extra_trans[w][2])
                              + sum(W \ {w})
    IN  sum(DOMAIN extra_trans)

-----------------------------------------------------------------------------
(* The environment: the vocabulary files of the working directory *)

None == "None"

wordA == << 65 >>
wordB == << 66 >>
wordC == << 67 >>
wordE == << 69 >>

a1 == << 97, 49 >>
b1 == << 98, 49 >>
c1 == << 99, 49 >>
E1 == << 69, 49 >>      \* a translation written with a capital letter
e2 == << 101, 50 >>
x  == << 120 >>         \* an answer that is no translation of any word

\* the files os.listdir finds, in listing order
Files == << "v1", "v2" >>

\* _read_voc: the table read from a vocabulary file.  v1 holds one block,
\* v2 one word; v3 holds (MAXLEVEL+1) * NUMWORDS words, one block per level,
\* v4 holds MAXLEVEL * NUMWORDS + 1 words, a last block of one word (v3 and
\* v4 are too long for the directory of the menu-driven runs).
read_voc(file) ==
    CASE file = "v1" -> << << wordA, <<a1>> >>, << wordB, <<b1>> >>, << wordC, <<c1>> >> >>
      [] file = "v2" -> << << wordE, <<E1, e2>> >> >>
      [] file = "v3" -> [i \in 1..((MAXLEVEL + 1) * NUMWORDS) |->
                            << << 119, 64 + i >>, << << 116, 96 + i >> >> >>]
      [] file = "v4" -> [i \in 1..(MAXLEVEL * NUMWORDS + 1) |->
                            << << 119, 64 + i >>, << << 116, 96 + i >> >> >>]
      [] OTHER -> << >>

-----------------------------------------------------------------------------
(* menu.py *)

\* str(n) for the option numbers a menu of this size needs
str(n) == << "1", "2", "3", "4", "5", "6", "7", "8", "9" >>[n]

\* menu.choose: the inputs it accepts, and what it returns for one.  Any
\* other input prints "not a valid choice" and asks again, leaving the
\* program where it is.  options: a list of <<input, value>>; default: ""
\* for none.
input_dict(options) == dict([i \in DOMAIN options |-> << options[i][1], options[i] >>])

effective_input(default, inp) == IF default # "" /\ inp = "" THEN default ELSE inp

accepts(options, default, inp) ==
    effective_input(default, inp) \in DOMAIN input_dict(options)

choose(options, default, inp) == input_dict(options)[effective_input(default, inp)]

\* every input worth typing: the option keys and the empty line
Inputs(options) == {options[i][1] : i \in DOMAIN options} \cup {""}

-----------------------------------------------------------------------------
(* session.py *)

\* tstate.current_voc_state, once it exists
current_voc_state == voc_states[voc_file]

\* TraineeState.current_voc_state: setdefault(_current_voc, VocState())
setdefault_current(states, file) ==
    IF file \in DOMAIN states THEN states
    ELSE [f \in DOMAIN states \cup {file} |-> IF f = file THEN VocState ELSE states[f]]

\* _setup_test
setup_test(level, table) ==
    dict(slice(table, NUMWORDS * level, NUMWORDS * level + NUMWORDS))

\* the order in which a set is iterated: fixed for a given set, not specified
enumerate(S) == CHOOSE f \in Perms(S) : TRUE

\* _modify_translation: the menu options built from the valid translations
modify_menuopts(trans) ==
    << << "0", None >>, << "a", None >>, << "r", None >> >>
    \o [n \in 1..Cardinality(trans) |-> << str(n), enumerate(trans)[n] >>]

\* a replacement that adds the answer but leaves the replaced word valid
modify_translation_replace_only_adds(extra_trans, engword, ans, choice) ==
    CASE choice[1] = "0" -> extra_trans
      [] choice[1] = "a" -> change_translation(extra_trans, engword, {ans}, {})
      [] choice[1] = "r" -> reset_modifications(extra_trans, engword)
      [] OTHER           -> change_translation(extra_trans, engword, {ans}, {})

\* _modify_translation: the effect of the chosen option on _extra_trans
modify_translation(extra_trans, engword, ans, choice) ==
    CASE choice[1] = "0" -> extra_trans
      [] choice[1] = "a" -> change_translation(extra_trans, engword, {ans}, {})
      [] choice[1] = "r" -> reset_modifications(extra_trans, engword)
      [] OTHER           -> change_translation(extra_trans, engword, {ans}, {choice[2]})

\* a main menu that offers training at the maximum level too
main_menuopts_train_at_max ==
    << << "c", None >>, << "l", None >> >>
    \o (IF voctable = << >> THEN << >>
        ELSE << << "t", None >> >>
             \o (IF current_voc_state.level # MAXLEVEL /\ current_voc_state.qualified
                 THEN << << "e", None >> >> ELSE << >>))
    \o << << "q", None >> >>

\* a main menu without the "level == _MAXLEVEL" test
main_menuopts_no_maxlevel ==
    << << "c", None >>, << "l", None >> >>
    \o (IF voctable = << >> THEN << >>
        ELSE << << "t", None >> >>
             \o (IF current_voc_state.qualified THEN << << "e", None >> >> ELSE << >>))
    \o << << "q", None >> >>

\* a main menu that offers the exam whether qualified or not
main_menuopts_exam_always ==
    << << "c", None >>, << "l", None >> >>
    \o (IF voctable = << >> THEN << >>
        ELSE IF current_voc_state.level = MAXLEVEL THEN << >>
        ELSE << << "t", None >>, << "e", None >> >>)
    \o << << "q", None >> >>

\* run_session: the main menu options for the state shown
main_menuopts ==
    << << "c", None >>, << "l", None >> >>
    \o (IF voctable = << >> THEN << >>
        ELSE IF current_voc_state.level = MAXLEVEL THEN << >>
        ELSE << << "t", None >> >>
             \o (IF current_voc_state.qualified THEN << << "e", None >> >> ELSE << >>))
    \o << << "q", None >> >>

\* _switch_voc: one option per vocabulary file found, and 'q'
switch_menuopts ==
    [i \in DOMAIN Files |-> << str(i), Files[i] >>] \o << << "q", None >> >>

\* TraineeState.print_all_stats: one line per vocabulary
print_all_stats(maxlevel) ==
    [k \in DOMAIN voc_states |->
        [cur   |-> (k = voc_file),
         level |-> voc_states[k].level,
         nmod  |-> num_of_modifs(voc_states[k].extra_trans),
         qual  |-> IF voc_states[k].level = maxlevel THEN "Master"
                   ELSE IF voc_states[k].qualified THEN "Yes" ELSE "No"]]

Nothing == [msg |-> ""]

\* no correction decision was taken by the last step
NoDecision == [inp |-> "", opt |-> "-", word |-> None]

\* no set object exists
NoHeap == << >>

\* _train / _take_exam: is the answer one of the valid translations
\* ("answer in translations")
is_correct(ans, trans) == ans \in trans

\* _train, "if not vocdict:" branch: the VocState after all words were
\* translated correctly
all_correct(vstate) ==
    IF ~vstate.qualified THEN [vstate EXCEPT !.qualified = TRUE] ELSE vstate

\* a passed exam that forgets "vstate.qualified = False"
passed_keeps_qualified(vstate) == [vstate EXCEPT !.level = @ + 1]

\* _take_exam, "if not vocdict:" branch: the VocState after a passed exam
passed(vstate) == [vstate EXCEPT !.level = @ + 1, !.qualified = FALSE]

\* a drill in which a correct answer leaves the word in vocdict
after_correct_keeps(vd, engword) == vd

\* _train, "del vocdict[engword]": the words left after a correct answer
after_correct(vd, engword) == del(vd, engword)

\* a drill that takes a word whose answer was added for mastered
after_wrong_added_is_mastered(vd, engword, choice) ==
    IF choice[1] = "a" THEN del(vd, engword) ELSE vd

\* _train, "if answer not in translations:" branch: the words left after a
\* wrong answer and the decision taken in the correction menu
after_wrong(vd, engword, choice) == vd

\* what a user may type at a word prompt: a valid translation in any
\* letter case, or one of the strings wrong
RawAnswers(wrong) ==
    translations \cup {lower(t) : t \in translations}
                 \cup {Shifted(t) : t \in translations} \cup wrong

\* history: what happened to a word in round 1
note(h, w, rec) ==
    IF round = 1 THEN [k \in DOMAIN h \cup {w} |-> IF k = w THEN rec ELSE h[k]] ELSE h

\* the valid translations of the words of a dict (get_translations)
all_translations(vstate, vd) ==
    [w \in DOMAIN vd |-> get_modified_translations(vstate.extra_trans, w, vd[w])]

\* _train: the for loop stands before position n of the round's order, with
\* vocdict vd and state objects vs; past the last position the round ends.
TrainGoto(vd, vs, order, n) ==
    /\ vocdict' = vd
    /\ testwords' = order
    /\ numwords' = Len(order)
    /\ IF n <= Len(order)
       THEN /\ pc' = "train_ask"
            /\ num' = n
            /\ translations' = get_modified_translations(
                                   vs[voc_file].extra_trans, order[n], vd[order[n]])
            /\ voc_states' = vs
            /\ out' = [msg |-> "ask"]
            /\ drilled' = drilled
            /\ productive' = productive
       ELSE IF DOMAIN vd = {}
       THEN /\ pc' = "loop"
            /\ num' = Len(order)
            /\ translations' = translations
            /\ voc_states' = [vs EXCEPT ![voc_file] = all_correct(@)]
            /\ out' = [msg |-> "allcorrect",
                       now_qualified |-> (~vs[voc_file].qualified
                                            /\ vs[voc_file].level < MAXLEVEL)]
            /\ drilled' = drilled \cup { << voc_file, vs[voc_file].level >> }
            /\ productive' = productive
       ELSE /\ pc' = "train_continue"
            /\ num' = Len(order)
            /\ translations' = translations
            /\ voc_states' = vs
            /\ out' = [msg |-> "difficult",
                       ncorrect |-> Len(order) - Cardinality(DOMAIN vd),
                       outof |-> Len(order),
                       words |-> all_translations(vs[voc_file], vd)]
            /\ drilled' = drilled
            /\ productive' = (productive /\ Cardinality(DOMAIN vd) < Len(order))

\* a round that begins with the whole block again
BeginRound_retest_block(vd, vs) ==
    \E order \in Perms(DOMAIN setup_test(vs[voc_file].level, voctable)) :
        TrainGoto(setup_test(vs[voc_file].level, voctable), vs, order, 1)

\* _train: a round begins: the remaining words are shuffled
BeginRound(vd, vs) ==
    \E order \in Perms(DOMAIN vd) : TrainGoto(vd, vs, order, 1)

\* an exam that is failed when there was no word to ask
ExamGoto_empty_fails(vd, vs, order, n, broke) ==
    /\ vocdict' = vd
    /\ testwords' = order
    /\ IF ~broke /\ n <= Len(order)
       THEN /\ pc' = "exam_ask"
            /\ num' = n
            /\ translations' = get_modified_translations(
                                   vs[voc_file].extra_trans, order[n], vd[order[n]])
            /\ voc_states' = vs
            /\ out' = [msg |-> "ask"]
       ELSE IF DOMAIN vd = {} /\ order # << >>
       THEN /\ pc' = "exam_return"
            /\ num' = Len(order)
            /\ translations' = translations
            /\ voc_states' = [vs EXCEPT ![voc_file] = passed(@)]
            /\ out' = [msg |-> "passed"]
       ELSE /\ pc' = "loop"
            /\ num' = n
            /\ translations' = translations
            /\ voc_states' = vs
            /\ out' = [msg |-> "failed"]

\* _take_exam: the for loop stands before position n, or was left by break;
\* after the loop the exam is passed or failed.
ExamGoto(vd, vs, order, n, broke) ==
    /\ vocdict' = vd
    /\ testwords' = order
    /\ IF ~broke /\ n <= Len(order)
       THEN /\ pc' = "exam_ask"
            /\ num' = n
            /\ translations' = get_modified_translations(
                                   vs[voc_file].extra_trans, order[n], vd[order[n]])
            /\ voc_states' = vs
            /\ out' = [msg |-> "ask"]
       ELSE IF DOMAIN vd = {}
       THEN /\ pc' = "exam_return"
            /\ num' = Len(order)
            /\ translations' = translations
            /\ voc_states' = [vs EXCEPT ![voc_file] = passed(@)]
            /\ out' = [msg |-> "passed"]
       ELSE /\ pc' = "loop"
            /\ num' = n
            /\ translations' = translations
            /\ voc_states' = vs
            /\ out' = [msg |-> "failed"]

\* _train up to its first prompt
StartTrain ==
    /\ vstate0' = current_voc_state
    /\ round' = 1
    /\ hist' = << >>
    /\ correct' = {}
    /\ BeginRound(setup_test(current_voc_state.level, voctable), voc_states)
    /\ UNCHANGED << voc_file, voctable, answer, statefile, writes, args, decision, heap >>

\* _take_exam up to its first prompt
StartExam ==
    /\ vstate0' = current_voc_state
    /\ \E order \in Perms(DOMAIN setup_test(current_voc_state.level, voctable)) :
           ExamGoto(setup_test(current_voc_state.level, voctable), voc_states,
                    order, 1, FALSE)
    /\ UNCHANGED << voc_file, voctable, numwords, answer, statefile, writes,
                    round, hist, correct, args, decision, drilled, productive, heap >>

-----------------------------------------------------------------------------
(* The menu-driven program: main() and run_session *)

\* main(): no state file yet, so a fresh TraineeState; run_session starts
\* with no vocabulary loaded and stands at the top of its loop.
Init ==
    /\ voc_file = ""
    /\ voc_states = << >>
    /\ voctable = << >>
    /\ pc = "loop"
    /\ vocdict = << >>
    /\ testwords = << >>
    /\ num = 0
    /\ numwords = 0
    /\ answer = << >>
    /\ translations = {}
    /\ out = Nothing
    /\ statefile = << >>
    /\ writes = 0
    /\ round = 0
    /\ hist = << >>
    /\ correct = {}
    /\ vstate0 = VocState
    /\ args = [op |-> "none"]
    /\ decision = NoDecision
    /\ drilled = {}
    /\ productive = TRUE
    /\ heap = NoHeap

\* the locals of a finished _train / _take_exam are gone
ClearLocals ==
    /\ vocdict' = << >>
    /\ testwords' = << >>
    /\ num' = 0
    /\ numwords' = 0
    /\ answer' = << >>
    /\ translations' = {}
    /\ out' = Nothing
    /\ round' = 0
    /\ hist' = << >>
    /\ correct' = {}
    /\ vstate0' = VocState
    /\ productive' = TRUE

\* run_session, top of the loop: the state of the current vocabulary is
\* read (and created when missing) and the main menu is shown
MainMenu ==
    /\ pc = "loop"
    /\ pc' = "menu"
    /\ voc_states' = IF voctable = << >> THEN voc_states
                     ELSE setdefault_current(voc_states, voc_file)
    /\ ClearLocals
    /\ UNCHANGED << voc_file, voctable, statefile, writes, args, decision, drilled, heap >>

\* main(): the finally clause pickles the TraineeState
Save ==
    /\ statefile' = << [voc_file |-> voc_file, voc_states |-> voc_states] >>
    /\ writes' = writes + 1

\* main(): run_session is left, by return or by KeyboardInterrupt, the
\* state is saved and the process ends
Exit ==
    /\ pc' = "exit"
    /\ Save
    /\ vocdict' = << >>
    /\ testwords' = << >>
    /\ num' = 0
    /\ numwords' = 0
    /\ answer' = << >>
    /\ translations' = {}
    /\ out' = [msg |-> "saved", at |-> pc]
    /\ round' = 0
    /\ hist' = << >>
    /\ correct' = {}
    /\ vstate0' = VocState
    /\ decision' = NoDecision
    /\ productive' = TRUE
    /\ UNCHANGED << voc_file, voc_states, voctable, args, drilled, heap >>

\* 'c': _switch_voc shows its menu
ChooseC ==
    /\ pc = "menu"
    /\ accepts(main_menuopts, "", "c")
    /\ pc' = "switch"
    /\ UNCHANGED << voc_file, voc_states, voctable, vocdict, testwords, num,
                    numwords, answer, translations, out, statefile, writes,
                    round, hist, correct, vstate0, args, decision, drilled,
                    productive, heap >>

\* _switch_voc: a file is chosen, or 'q'; a changed vocabulary is read
SwitchVoc ==
    /\ pc = "switch"
    /\ \E inp \in Inputs(switch_menuopts) :
          /\ accepts(switch_menuopts, "", inp)
          /\ LET choice == choose(switch_menuopts, "", inp)
                 file   == IF choice[1] # "q" THEN choice[2] ELSE voc_file
             IN  /\ voc_file' = file
                 /\ voctable' = IF file # voc_file THEN read_voc(file) ELSE voctable
    /\ pc' = "loop"
    /\ out' = [msg |-> "switched"]
    /\ UNCHANGED << voc_states, vocdict, testwords, num, numwords, answer,
                    translations, statefile, writes, round, hist, correct, vstate0, args,
                    decision, drilled, productive, heap >>

\* 'l': the levels of all vocabularies are printed
ChooseL ==
    /\ pc = "menu"
    /\ accepts(main_menuopts, "", "l")
    /\ pc' = "loop"
    /\ out' = [msg |-> "stats", table |-> print_all_stats(MAXLEVEL)]
    /\ UNCHANGED << voc_file, voc_states, voctable, vocdict, testwords, num,
                    numwords, answer, translations, statefile, writes,
                    round, hist, correct, vstate0, args, decision, drilled,
                    productive, heap >>

\* 'q': run_session returns and main() saves
ChooseQ ==
    /\ pc = "menu"
    /\ accepts(main_menuopts, "", "q")
    /\ Exit

\* 't': a training session starts
ChooseT ==
    /\ pc = "menu"
    /\ accepts(main_menuopts, "", "t")
    /\ StartTrain

\* 'e': an exam starts
ChooseE ==
    /\ pc = "menu"
    /\ accepts(main_menuopts, "", "e")
    /\ StartExam

\* a main() that saves after run_session returns, without try / finally
Interrupt_without_save ==
    /\ pc \in {"menu", "switch", "train_ask", "train_modify", "train_continue",
               "exam_ask", "exam_return"}
    /\ pc' = "exit"
    /\ out' = [msg |-> "lost", at |-> pc]
    /\ UNCHANGED << voc_file, voc_states, voctable, vocdict, testwords, num,
                    numwords, answer, translations, statefile, writes, round,
                    hist, correct, vstate0, args, decision, drilled,
                    productive, heap >>

\* Ctrl-C while the program blocks in input(): main() catches it and saves
Interrupt ==
    /\ pc \in {"menu", "switch", "train_ask", "train_modify", "train_continue",
               "exam_ask", "exam_return"}
    /\ Exit

-----------------------------------------------------------------------------
(* _train *)

\* the answer to the prompted word is read and lower-cased
TrainRead(wrong) ==
    /\ pc = "train_ask"
    /\ \E raw \in RawAnswers(wrong) : answer' = lower(raw)
    /\ pc' = "train_check"
    /\ decision' = NoDecision
    /\ UNCHANGED << voc_file, voc_states, voctable, vocdict, testwords, num,
                    numwords, translations, out, statefile, writes, round,
                    hist, correct, vstate0, args, drilled, productive, heap >>

\* the answer is compared: a correct one removes the word and the loop goes
\* on, a wrong one shows the correction menu
TrainCheck ==
    /\ pc = "train_check"
    /\ IF is_correct(answer, translations)
       THEN /\ hist' = note(hist, testwords[num],
                            [ok |-> TRUE, opt |-> "-", answer |-> answer])
            /\ correct' = correct \cup {testwords[num]}
            /\ TrainGoto(after_correct(vocdict, testwords[num]), voc_states,
                         testwords, num + 1)
       ELSE /\ pc' = "train_modify"
            /\ out' = [msg |-> "notcorrect"]
            /\ UNCHANGED << voc_states, vocdict, testwords, num, numwords,
                            translations, hist, correct, drilled,
                            productive >>
    /\ UNCHANGED << voc_file, voctable, answer, statefile, writes, round,
                    vstate0, args, decision, heap >>

\* _modify_translation: the user decides what to do with the rejected
\* answer; then the loop goes on.  budget bounds the stored corrections.
ModifyChoice(budget) ==
    /\ pc = "train_modify"
    /\ \E inp \in Inputs(modify_menuopts(translations)) :
          /\ accepts(modify_menuopts(translations), "0", inp)
          /\ LET choice == choose(modify_menuopts(translations), "0", inp)
                 et     == modify_translation(current_voc_state.extra_trans,
                                              testwords[num], answer, choice)
                 vs     == [voc_states EXCEPT ![voc_file].extra_trans = et]
             IN  /\ num_of_modifs(et) <= budget
                 /\ decision' = [inp |-> inp, opt |-> choice[1], word |-> choice[2]]
                 /\ hist' = note(hist, testwords[num],
                                 [ok |-> FALSE,
                                  opt |-> IF choice[1] \in {"0", "a", "r"}
                                          THEN choice[1] ELSE "n",
                                  answer |-> answer])
                 /\ TrainGoto(after_wrong(vocdict, testwords[num], choice), vs,
                              testwords, num + 1)
    /\ UNCHANGED << voc_file, voctable, answer, statefile, writes, round,
                    correct, vstate0, args, heap >>

\* a training menu whose exit qualifies the trainee for the exam
ContinueChoice_exit_qualifies ==
    /\ pc = "train_continue"
    /\ decision' = NoDecision
    /\ \E inp \in {"c", "x"} :
          IF inp = "x"
          THEN /\ pc' = "loop"
               /\ out' = [msg |-> "exit"]
               /\ voc_states' = [voc_states EXCEPT ![voc_file].qualified = TRUE]
               /\ UNCHANGED << vocdict, testwords, num, numwords,
                               translations, round, hist, drilled,
                               productive >>
          ELSE /\ round' = IF round < RoundCap THEN round + 1 ELSE round
               /\ hist' = IF round = 1 THEN hist ELSE << >>
               /\ BeginRound(vocdict, voc_states)
    /\ UNCHANGED << voc_file, voctable, answer, statefile, writes, correct,
                    vstate0, args, heap >>

\* the training menu after a round with missed words: continue or exit
ContinueChoice ==
    /\ pc = "train_continue"
    /\ decision' = NoDecision
    /\ \E inp \in {"c", "x"} :
          IF inp = "x"
          THEN /\ pc' = "loop"
               /\ out' = [msg |-> "exit"]
               /\ UNCHANGED << voc_states, vocdict, testwords, num, numwords,
                               translations, round, hist, drilled,
                               productive >>
          ELSE /\ round' = IF round < RoundCap THEN round + 1 ELSE round
               /\ hist' = IF round = 1 THEN hist ELSE << >>
               /\ BeginRound(vocdict, voc_states)
    /\ UNCHANGED << voc_file, voctable, answer, statefile, writes, correct,
                    vstate0, args, heap >>

-----------------------------------------------------------------------------
(* _take_exam *)

ExamRead(wrong) ==
    /\ pc = "exam_ask"
    /\ \E raw \in RawAnswers(wrong) : answer' = lower(raw)
    /\ pc' = "exam_check"
    /\ UNCHANGED << voc_file, voc_states, voctable, vocdict, testwords, num,
                    numwords, translations, out, statefile, writes, round,
                    hist, correct, vstate0, args, decision, drilled,
                    productive, heap >>

\* an exam without the "break": a wrong answer goes on to the next word
ExamCheck_no_break ==
    /\ pc = "exam_check"
    /\ IF is_correct(answer, translations)
       THEN ExamGoto(del(vocdict, testwords[num]), voc_states, testwords, num + 1, FALSE)
       ELSE ExamGoto(vocdict, voc_states, testwords, num + 1, FALSE)
    /\ UNCHANGED << voc_file, voctable, numwords, answer, statefile, writes,
                    round, hist, correct, vstate0, args, decision, drilled,
                    productive, heap >>

\* a correct answer removes the word and the exam goes on; a wrong one
\* ends the loop
ExamCheck ==
    /\ pc = "exam_check"
    /\ IF is_correct(answer, translations)
       THEN ExamGoto(del(vocdict, testwords[num]), voc_states, testwords, num + 1, FALSE)
       ELSE ExamGoto(vocdict, voc_states, testwords, num, TRUE)
    /\ UNCHANGED << voc_file, voctable, numwords, answer, statefile, writes,
                    round, hist, correct, vstate0, args, decision, drilled,
                    productive, heap >>

\* "Press return" after the level up
ExamReturn ==
    /\ pc = "exam_return"
    /\ pc' = "loop"
    /\ UNCHANGED << voc_file, voc_states, voctable, vocdict, testwords, num,
                    numwords, answer, translations, out, statefile, writes,
                    round, hist, correct, vstate0, args, decision, drilled,
                    productive, heap >>

Next ==
    \/ MainMenu
    \/ ChooseC
    \/ SwitchVoc
    \/ ChooseL
    \/ ChooseQ
    \/ ChooseT
    \/ ChooseE
    \/ Interrupt
    \/ TrainRead({x})
    \/ TrainCheck
    \/ ModifyChoice(MaxMenuModifs)
    \/ ContinueChoice
    \/ ExamRead({x})
    \/ ExamCheck
    \/ ExamReturn

Spec == Init /\ [][Next]_vars

-----------------------------------------------------------------------------
(* main() with the state file of an earlier session: the file is loaded,    *)
(* run_session reads the vocabulary named in it, and the trainee may store  *)
(* up to MaxModifs corrections for a vocabulary.                            *)

\* the TraineeStates the earlier sessions have pickled: v1 was brought to
\* the maximum level, with or without a correction, and v2 is the current
\* vocabulary, still at level 0
SavedStates ==
    { [voc_file |-> "v2",
       voc_states |-> [f \in {"v1", "v2"} |->
                          IF f = "v1"
                          THEN [level |-> MAXLEVEL, qualified |-> FALSE, extra_trans |-> et]
                          ELSE [level |-> 0, qualified |-> q, extra_trans |-> << >>]]] :
        q \in BOOLEAN,
        et \in { << >>, [w \in {wordA} |-> << {x}, {} >>] } }

\* main(): trainee.pkl exists and is loaded with pickle.load; run_session
\* reads the vocabulary of the loaded state
InitMain ==
    /\ statefile \in { << st >> : st \in SavedStates }
    /\ voc_file = statefile[1].voc_file
    /\ voc_states = statefile[1].voc_states
    /\ voctable = IF voc_file # "" THEN read_voc(voc_file) ELSE << >>
    /\ pc = "loop"
    /\ vocdict = << >>
    /\ testwords = << >>
    /\ num = 0
    /\ numwords = 0
    /\ answer = << >>
    /\ translations = {}
    /\ out = Nothing
    /\ writes = 0
    /\ round = 0
    /\ hist = << >>
    /\ correct = {}
    /\ vstate0 = VocState
    /\ args = [op |-> "none"]
    /\ decision = NoDecision
    /\ drilled = {}
    /\ productive = TRUE
    /\ heap = NoHeap

NextMain ==
    \/ MainMenu
    \/ ChooseC
    \/ SwitchVoc
    \/ ChooseL
    \/ ChooseQ
    \/ ChooseT
    \/ ChooseE
    \/ Interrupt
    \/ TrainRead({x})
    \/ TrainCheck
    \/ ModifyChoice(MaxModifs)
    \/ ContinueChoice
    \/ ExamRead({x})
    \/ ExamCheck
    \/ ExamReturn

SpecMain == InitMain /\ [][NextMain]_vars

-----------------------------------------------------------------------------
(* The engines called directly: _train(vstate, voctable) and                *)
(* _take_exam(vstate, voctable) for any VocState with a level in            *)
(* 0..MAXLEVEL, without the main menu in front of them.                     *)

\* the vocabulary and the level of the VocState passed in: the short
\* vocabularies at any level, the long ones at their last level
EngineInputs ==
    ({"v1", "v2"} \X (0..MAXLEVEL)) \cup {<< "v3", MAXLEVEL >>, << "v4", MAXLEVEL >>}

InitEngine ==
    /\ \E inp \in EngineInputs, q \in BOOLEAN :
          /\ voc_file = inp[1]
          /\ voc_states = [f \in {inp[1]} |->
                              [VocState EXCEPT !.level = inp[2], !.qualified = q]]
    /\ voctable = read_voc(voc_file)
    /\ pc = "idle"
    /\ vocdict = << >>
    /\ testwords = << >>
    /\ num = 0
    /\ numwords = 0
    /\ answer = << >>
    /\ translations = {}
    /\ out = Nothing
    /\ statefile = << >>
    /\ writes = 0
    /\ round = 0
    /\ hist = << >>
    /\ correct = {}
    /\ vstate0 = VocState
    /\ args = [op |-> "none"]
    /\ decision = NoDecision
    /\ drilled = {}
    /\ productive = TRUE
    /\ heap = NoHeap

\* _train(vstate, voctable) is called
CallTrain ==
    /\ pc = "idle"
    /\ current_voc_state.level <= MAXLEVEL
    /\ StartTrain

\* _take_exam(vstate, voctable) is called
CallExam ==
    /\ pc = "idle"
    /\ current_voc_state.level <= MAXLEVEL
    /\ StartExam

\* the engine has returned to its caller
Returned ==
    /\ pc = "loop"
    /\ pc' = "idle"
    /\ ClearLocals
    /\ UNCHANGED << voc_file, voc_states, voctable, statefile, writes, args, decision, drilled, heap >>

NextEngine ==
    \/ CallTrain
    \/ CallExam
    \/ Returned
    \/ TrainRead({x})
    \/ TrainCheck
    \/ ModifyChoice(MaxModifs)
    \/ ContinueChoice
    \/ ExamRead({x})
    \/ ExamCheck
    \/ ExamReturn

SpecEngine == InitEngine /\ [][NextEngine]_vars

-----------------------------------------------------------------------------
(* The VocState methods called directly, with any arguments *)

StoreWords == {wordA, wordB}

\* the strings "a1", "a2", ...
Pool == { << 97, 48 + i >> : i \in 1..PoolSize }

\* the lists of at most MaxLen strings
Lists == UNION { [1..n -> Pool] : n \in 0..MaxLen }

InitStore ==
    /\ voc_file = "v1"
    /\ voctable = << >>
    /\ voc_states = [f \in {"v1"} |-> VocState]
    /\ pc = "store"
    /\ vocdict = << >>
    /\ testwords = << >>
    /\ num = 0
    /\ numwords = 0
    /\ answer = << >>
    /\ translations = {}
    /\ out = Nothing
    /\ statefile = << >>
    /\ writes = 0
    /\ round = 0
    /\ hist = << >>
    /\ correct = {}
    /\ vstate0 = VocState
    /\ args = [op |-> "none"]
    /\ decision = NoDecision
    /\ drilled = {}
    /\ productive = TRUE
    /\ heap = NoHeap

StoreFrame ==
    UNCHANGED << voc_file, voctable, pc, vocdict, testwords, num, numwords,
                 answer, out, statefile, writes, round, hist, correct, vstate0,
                 decision, drilled, productive, heap >>

\* vstate.change_translation(engword, add, remove)
StoreChange ==
    /\ pc = "store"
    /\ \E w \in StoreWords, add \in SUBSET Pool, remove \in SUBSET Pool :
          /\ voc_states' = [voc_states EXCEPT ![voc_file].extra_trans =
                               change_translation(@, w, add, remove)]
          /\ args' = [op |-> "change", engword |-> w, add |-> add, remove |-> remove]
    /\ translations' = {}
    /\ StoreFrame

\* vstate.reset_modifications(engword)
StoreReset ==
    /\ pc = "store"
    /\ \E w \in StoreWords :
          /\ voc_states' = [voc_states EXCEPT ![voc_file].extra_trans =
                               reset_modifications(@, w)]
          /\ args' = [op |-> "reset", engword |-> w,
                       had |-> entry(current_voc_state.extra_trans, w)]
    /\ translations' = {}
    /\ StoreFrame

\* vstate.get_modified_translations(engword, translations)
StoreGet ==
    /\ pc = "store"
    /\ \E w \in StoreWords, list \in Lists :
          /\ translations' = get_modified_translations(
                                 current_voc_state.extra_trans, w, list)
          /\ args' = [op |-> "get", engword |-> w, translations |-> list]
    /\ UNCHANGED voc_states
    /\ StoreFrame

NextStore == StoreChange \/ StoreReset \/ StoreGet

SpecStore == InitStore /\ [][NextStore]_vars

-----------------------------------------------------------------------------
(* _setup_test called directly, for any vocabulary table and any level in   *)
(* 0..MAXLEVEL                                                              *)

\* a line of a vocabulary file as _read_voc returns it: an English word
\* and its list of translations; a word may stand on several lines
TableEntries == {wordA, wordB, wordC, wordE} \X { << a1 >>, << b1 >> }

\* the vocabulary tables of at most MaxTable lines
Tables == UNION { [1..n -> TableEntries] : n \in 0..MaxTable }

InitBlock ==
    /\ voc_file = "v1"
    /\ voctable \in Tables
    /\ \E level \in 0..MAXLEVEL :
          voc_states = [f \in {"v1"} |-> [VocState EXCEPT !.level = level]]
    /\ pc = "select"
    /\ vocdict = << >>
    /\ testwords = << >>
    /\ num = 0
    /\ numwords = 0
    /\ answer = << >>
    /\ translations = {}
    /\ out = Nothing
    /\ statefile = << >>
    /\ writes = 0
    /\ round = 0
    /\ hist = << >>
    /\ correct = {}
    /\ vstate0 = VocState
    /\ args = [op |-> "none"]
    /\ decision = NoDecision
    /\ drilled = {}
    /\ productive = TRUE
    /\ heap = NoHeap

\* vocdict = _setup_test(vstate, voctable)
CallSetupTest ==
    /\ pc = "select"
    /\ vocdict' = setup_test(current_voc_state.level, voctable)
    /\ pc' = "selected"
    /\ UNCHANGED << voc_file, voc_states, voctable, testwords, num, numwords,
                    answer, translations, out, statefile, writes, round, hist,
                    correct, vstate0, args, decision, drilled,
                    productive, heap >>

NextBlock == CallSetupTest

SpecBlock == InitBlock /\ [][NextBlock]_vars

-----------------------------------------------------------------------------
(* The VocState methods on objects.  A Python set is an object: "s |= t"    *)
(* changes the object s names, for everyone who holds it.  heap.obj gives   *)
(* the content of every set object, heap.ext the _extra_trans dict of each  *)
(* VocState: word -> the pair of set objects stored for it.  The default    *)
(* values of add and remove are two objects made once, when the method is   *)
(* defined; the caller's arguments are objects of the caller.               *)

\* the name of a set object: who made it (the method definition, a caller,
\* setdefault), and which one of those it is
SetObject(maker, content, f, engword, role) == << maker, content, f, engword, role >>

\* the default values "set()" of the parameters add and remove
DefaultAdd == SetObject("def", {}, "", << >>, "add")
DefaultRemove == SetObject("def", {}, "", << >>, "remove")

\* the strings a caller puts into its sets
Strings == { << 97, 48 + i >> : i \in 1..MaxStrings }

\* the set objects of a caller: one for each content
CallerSets == { SetObject("caller", S, "", << >>, "") : S \in SUBSET Strings }

\* the vocabularies with a VocState
ObjFiles == {"v1", "v2"}

\* the words of each: "v1" has one word, which "v2" has too
ObjWords(f) == IF f = "v1" THEN {wordA} ELSE StoreWords

\* the _extra_trans dict of vocabulary f as a dict of pairs of sets
view(h, f) ==
    [w \in DOMAIN h.ext[f] |-> << h.obj[h.ext[f][w][1]], h.obj[h.ext[f][w][2]] >>]

\* the VocStates with the content of their stored objects
views(states, h) ==
    [f \in DOMAIN states |-> [states[f] EXCEPT !.extra_trans = view(h, f)]]

\* a change_translation that stores its argument objects as the new entry:
\* setdefault(engword, (add, remove))
change_translation_objects_stores_args(h, f, engword, add, remove) ==
    LET had == engword \in DOMAIN h.ext[f]
        ids == IF had THEN h.ext[f][engword] ELSE << add, remove >>
        o0  == h.obj
        o1  == [o0 EXCEPT ![ids[1]] = @ \cup o0[add]]
        o2  == [o1 EXCEPT ![ids[1]] = @ \ o1[remove]]
        o3  == [o2 EXCEPT ![ids[2]] = @ \cup o2[remove]]
        o4  == [o3 EXCEPT ![ids[2]] = @ \ o3[add]]
    IN  [obj |-> o4,
         ext |-> [h.ext EXCEPT ![f] =
                     [w \in DOMAIN @ \cup {engword} |->
                         IF w = engword THEN ids ELSE @[w]]]]

\* VocState.change_translation statement by statement: add and remove name
\* the argument objects
change_translation_objects(h, f, engword, add, remove) ==
    LET had == engword \in DOMAIN h.ext[f]
        \* setdefault(engword, (set(), set())): two new objects when absent
        ids == IF had THEN h.ext[f][engword]
               ELSE << SetObject("setdefault", {}, f, engword, "addset"),
                       SetObject("setdefault", {}, f, engword, "rmset") >>
        o0  == IF had THEN h.obj
               ELSE [id \in DOMAIN h.obj \cup {ids[1], ids[2]} |->
                        IF id \in {ids[1], ids[2]} THEN {} ELSE h.obj[id]]
        o1  == [o0 EXCEPT ![ids[1]] = @ \cup o0[add]]       \* addset |= add
        o2  == [o1 EXCEPT ![ids[1]] = @ \ o1[remove]]       \* addset -= remove
        o3  == [o2 EXCEPT ![ids[2]] = @ \cup o2[remove]]    \* rmset |= remove
        o4  == [o3 EXCEPT ![ids[2]] = @ \ o3[add]]          \* rmset -= add
    IN  [obj |-> o4,
         ext |-> [h.ext EXCEPT ![f] =
                     [w \in DOMAIN @ \cup {engword} |->
                         IF w = engword THEN ids ELSE @[w]]]]

\* VocState.reset_modifications: the entry is deleted; set objects nobody
\* holds any more are gone
reset_modifications_objects(h, f, engword) ==
    IF engword \notin DOMAIN h.ext[f] THEN h
    ELSE LET ext2 == [h.ext EXCEPT ![f] = del(@, engword)]
             held == {DefaultAdd, DefaultRemove} \cup CallerSets
                       \cup UNION { {ext2[g][w][1], ext2[g][w][2]} :
                                      << g, w >> \in { gw \in ObjFiles \X StoreWords :
                                                         gw[2] \in DOMAIN ext2[gw[1]] } }
         IN  [obj |-> [id \in DOMAIN h.obj \cap held |-> h.obj[id]], ext |-> ext2]

\* two VocStates, "v1" current, no corrections; the default objects are
\* empty and every caller object holds its content
InitObjects ==
    /\ voc_file = "v1"
    /\ voctable = << >>
    /\ \E q \in BOOLEAN :
          voc_states = [f \in ObjFiles |->
                           IF f = "v1" THEN [VocState EXCEPT !.qualified = q]
                           ELSE [VocState EXCEPT !.level = 1]]
    /\ heap = [obj |-> [id \in {DefaultAdd, DefaultRemove} \cup CallerSets |->
                           IF id \in CallerSets THEN id[2] ELSE {}],
               ext |-> [f \in ObjFiles |-> << >>]]
    /\ pc = "objects"
    /\ vocdict = << >>
    /\ testwords = << >>
    /\ num = 0
    /\ numwords = 0
    /\ answer = << >>
    /\ translations = {}
    /\ out = Nothing
    /\ statefile = << >>
    /\ writes = 0
    /\ round = 0
    /\ hist = << >>
    /\ correct = {}
    /\ vstate0 = VocState
    /\ args = [op |-> "none"]
    /\ decision = NoDecision
    /\ drilled = {}
    /\ productive = TRUE

ObjFrame ==
    UNCHANGED << voctable, pc, vocdict, testwords, num, numwords, answer,
                 translations, out, statefile, writes, round, hist, correct,
                 vstate0, decision, drilled, productive >>

\* tstate.voc_file = f: another vocabulary becomes the current one
ObjSelect ==
    /\ pc = "objects"
    /\ \E f \in ObjFiles \ {voc_file} : voc_file' = f
    /\ args' = [op |-> "select"]
    /\ UNCHANGED << voc_states, heap >>
    /\ ObjFrame

\* tstate.current_voc_state.change_translation(engword, add, remove), with
\* add or remove omitted or given
ObjChange ==
    /\ pc = "objects"
    /\ \E w \in ObjWords(voc_file),
          add \in {DefaultAdd} \cup CallerSets,
          remove \in {DefaultRemove} \cup CallerSets :
          /\ heap' = change_translation_objects(heap, voc_file, w, add, remove)
          /\ args' = [op |-> "change", engword |-> w,
                       omitted |-> {add, remove} \cap {DefaultAdd, DefaultRemove} # {}]
    /\ voc_states' = views(voc_states, heap')
    /\ UNCHANGED voc_file
    /\ ObjFrame

\* tstate.current_voc_state.reset_modifications(engword)
ObjReset ==
    /\ pc = "objects"
    /\ \E w \in ObjWords(voc_file) :
          /\ heap' = reset_modifications_objects(heap, voc_file, w)
          /\ args' = [op |-> "reset", engword |-> w]
    /\ voc_states' = views(voc_states, heap')
    /\ UNCHANGED voc_file
    /\ ObjFrame

NextObjects == ObjSelect \/ ObjChange \/ ObjReset

SpecObjects == InitObjects /\ [][NextObjects]_vars

-----------------------------------------------------------------------------
(* Properties *)

Level(f) == voc_states[f].level

Qualified(f) == voc_states[f].qualified

Additions(f, w) == entry(voc_states[f].extra_trans, w)[1]

Removals(f, w) == entry(voc_states[f].extra_trans, w)[2]

\* C1: in every state of the menu-driven program, for every vocabulary,
\* qualified implies level < MAXLEVEL.
C1_QualifiedBelowMax ==
    \A f \in DOMAIN voc_states : Qualified(f) => Level(f) < MAXLEVEL

\* one vocabulary stands at the maximum level while another is qualified
\* one level below it
C1_Witness ==
    \E f, g \in DOMAIN voc_states :
        /\ Level(f) = MAXLEVEL
        /\ Level(g) = MAXLEVEL - 1
        /\ Qualified(g)

\* C2: after any sequence of change_translation and reset_modifications
\* calls, with overlapping add and remove sets too, the additions and the
\* removals stored for a word are disjoint.
C2_Disjoint ==
    \A f \in DOMAIN voc_states :
        \A w \in DOMAIN voc_states[f].extra_trans :
            Additions(f, w) \cap Removals(f, w) = {}

\* the last call had overlapping add and remove sets, for a word that had
\* corrections before and has an addition now
C2_Witness ==
    /\ args.op = "change"
    /\ args.add \cap args.remove # {}
    /\ args.add # args.remove
    /\ Additions(voc_file, args.engword) # {}

\* C3: get_modified_translations(w, defaults) is (set(defaults) + additions)
\* - removals: no removal of w is in it, every addition of w is, and for a
\* word without an entry it is set(defaults).
C3_Effective ==
    args.op = "get" =>
        LET A == Additions(voc_file, args.engword)
            R == Removals(voc_file, args.engword)
            D == {args.translations[i] : i \in 1..Len(args.translations)}
        IN  /\ translations = (D \cup A) \ R
            /\ translations \cap R = {}
            /\ A \subseteq translations
            /\ args.engword \notin DOMAIN current_voc_state.extra_trans
                  => translations = D

\* the call was made with a default list that repeats a removed string, for
\* a word that has an addition
C3_Witness ==
    /\ args.op = "get"
    /\ Len(args.translations) = 2
    /\ args.translations[1] = args.translations[2]
    /\ args.translations[1] \in Removals(voc_file, args.engword)
    /\ Additions(voc_file, args.engword) # {}

ExamPcs == {"exam_ask", "exam_check"}

\* C4: an exam whose first wrong answer comes at any position fails at
\* once, prompts no further word, and leaves level, qualified and the
\* corrections as they were when the exam started.
C4_FailedExam ==
    /\ [](pc \in ExamPcs => current_voc_state = vstate0)
    /\ [][ (pc = "exam_check" /\ answer \notin translations) =>
              /\ pc' = "loop"
              /\ out'.msg = "failed"
              /\ num' = num
              /\ voc_states' = voc_states
              /\ voc_states'[voc_file] = vstate0 ]_vars

\* an exam failed at its last word, taken with stored corrections by a
\* qualified trainee
C4_Witness ==
    /\ pc = "loop"
    /\ out.msg = "failed"
    /\ num = NUMWORDS
    /\ vstate0.qualified
    /\ vstate0.extra_trans # << >>
    /\ current_voc_state = vstate0

\* C5: an exam in which every word is answered correctly is passed, raises
\* the level by exactly one and sets qualified to false; no other step
\* changes a level.
C5_PassedExam ==
    /\ [][ (pc = "exam_check" /\ answer \in translations /\ num = Len(testwords)) =>
              /\ pc' = "exam_return"
              /\ out'.msg = "passed"
              /\ Level(voc_file)' = Level(voc_file) + 1
              /\ ~Qualified(voc_file)' ]_vars
    /\ [][ \A f \in DOMAIN voc_states :
              /\ f \in DOMAIN voc_states'
              /\ Level(f)' # Level(f) =>
                    /\ f = voc_file
                    /\ pc' = "exam_return"
                    /\ out'.msg = "passed"
                    /\ vocdict' = << >>
                    /\ Level(f)' = Level(f) + 1
                    /\ ~Qualified(f)' ]_vars

\* a qualified trainee has passed an exam over a full block
C5_Witness ==
    /\ pc = "exam_return"
    /\ Len(testwords) = NUMWORDS
    /\ vstate0.qualified
    /\ current_voc_state.level = vstate0.level + 1
    /\ ~current_voc_state.qualified

\* C6: a drill in which every word is answered correctly in round 1 ends
\* after that round in AllCorrect, without report or continue prompt, and
\* qualified becomes true exactly when it was false and level < MAXLEVEL; at
\* level = MAXLEVEL it is not set.
C6_AllCorrectRound1 ==
    [][ (/\ pc = "train_check"
         /\ round = 1
         /\ num = Len(testwords)
         /\ answer \in translations
         /\ DOMAIN vocdict = {testwords[num]}) =>
            /\ pc' = "loop"
            /\ out'.msg = "allcorrect"
            /\ round' = 1
            /\ Qualified(voc_file)' =
                  IF ~Qualified(voc_file) /\ Level(voc_file) < MAXLEVEL
                  THEN TRUE ELSE Qualified(voc_file) ]_vars

\* C7: no exam is started or offered for a vocabulary at level MAXLEVEL
\* and no level exceeds MAXLEVEL; an exam passed at level MAXLEVEL - 1
\* gives level MAXLEVEL and qualified false, and from then on the vocabulary
\* stays there, unqualified, with no exam option in the main menu.
C7_NoExamAtMax ==
    /\ [](\A f \in DOMAIN voc_states : Level(f) <= MAXLEVEL)
    /\ []((pc \in ExamPcs \/ pc = "exam_return") => vstate0.level < MAXLEVEL)
    /\ []((pc = "menu" /\ voctable # << >> /\ Level(voc_file) = MAXLEVEL)
             => ~accepts(main_menuopts, "", "e"))
    /\ [][ (pc = "exam_check" /\ pc' = "exam_return" /\ Level(voc_file) = MAXLEVEL - 1) =>
              /\ Level(voc_file)' = MAXLEVEL
              /\ ~Qualified(voc_file)' ]_vars
    /\ [][ \A f \in DOMAIN voc_states :
              Level(f) = MAXLEVEL =>
                 /\ Level(f)' = MAXLEVEL
                 /\ ~Qualified(f)'
                 /\ (voc_file' = f => pc' \notin ExamPcs) ]_vars

\* the exam at level MAXLEVEL - 1 was just passed
C7_Witness ==
    /\ pc = "exam_return"
    /\ vstate0.level = MAXLEVEL - 1
    /\ vstate0.qualified
    /\ Level(voc_file) = MAXLEVEL
    /\ ~Qualified(voc_file)

TrainPcs == {"train_ask", "train_check", "train_modify", "train_continue"}

\* the block of the running drill or exam
Block == DOMAIN setup_test(vstate0.level, voctable)

\* round 1 of the scenario of C8: wordA answered correctly, wordB wrongly with
\* 'add my answer', wordC wrongly with 'do nothing', on fresh corrections
Scenario ==
    /\ voc_file = "v1"
    /\ vstate0.level = 0
    /\ vstate0.extra_trans = << >>
    /\ DOMAIN hist = {wordA, wordB, wordC}
    /\ hist[wordA].ok
    /\ ~hist[wordB].ok /\ hist[wordB].opt = "a"
    /\ ~hist[wordC].ok /\ hist[wordC].opt = "0"

\* C8 as claimed: after round 1 of the scenario only C remains.
C8_OnlyCRemains ==
    (pc = "train_continue" /\ round = 1 /\ Scenario) => DOMAIN vocdict = {wordC}

\* C8: after round 1 of the scenario B and C remain, B's additions hold
\* the user's answer and C has no corrections; a second round in which B
\* and C are answered correctly ends the drill in AllCorrect with B's
\* additions still holding that answer and C still without corrections.
C8_ScenarioBothRemain ==
    /\ []((pc = "train_continue" /\ round = 1 /\ Scenario) =>
              /\ DOMAIN vocdict = {wordB, wordC}
              /\ Additions("v1", wordB) = {hist[wordB].answer}
              /\ Removals("v1", wordB) = {}
              /\ wordC \notin DOMAIN current_voc_state.extra_trans)
    /\ [][ (/\ pc = "train_check"
            /\ round = 2
            /\ Scenario
            /\ Len(testwords) = 2
            /\ num = 2
            /\ answer \in translations
            /\ DOMAIN vocdict = {testwords[num]}) =>
               /\ pc' = "loop"
               /\ out'.msg = "allcorrect"
               /\ hist[wordB].answer \in Additions("v1", wordB)'
               /\ wordC \notin DOMAIN current_voc_state.extra_trans' ]_vars

\* the scenario has run: the drill ended in AllCorrect in round 2
C8_Witness ==
    /\ pc = "loop"
    /\ out.msg = "allcorrect"
    /\ round = 2
    /\ Scenario
    /\ correct = {wordA, wordB, wordC}
    /\ Additions("v1", wordB) = {x}
    /\ wordC \notin DOMAIN current_voc_state.extra_trans

\* C9: in drill and exam an answer is accepted exactly when it equals a
\* valid translation of the word with letter case ignored.
C9_CaseInsensitive ==
    [][ (pc \in {"train_check", "exam_check"}) =>
           ((testwords[num] \notin DOMAIN vocdict')
               <=> (\E t \in translations : lower(t) = lower(answer))) ]_vars

\* C10: all through a drill the remaining words are the block minus the
\* words answered correctly so far; a wrong answer leaves its word in
\* whatever the decision and the round goes on to the next word; AllCorrect
\* is reached only when every word of the block was answered correctly.
C10_Remaining ==
    /\ []((pc \in TrainPcs \/ (pc = "loop" /\ out.msg \in {"allcorrect", "exit"}))
              => DOMAIN vocdict = Block \ correct)
    /\ []((pc = "loop" /\ out.msg = "allcorrect") => correct = Block)
    /\ [][ pc = "train_modify" =>
              /\ vocdict' = vocdict
              /\ testwords[num] \in DOMAIN vocdict'
              /\ testwords' = testwords
              /\ IF num < Len(testwords)
                 THEN pc' = "train_ask" /\ num' = num + 1
                 ELSE pc' = "train_continue" ]_vars
    /\ [][ (pc = "train_check" /\ answer \in translations) =>
              /\ DOMAIN vocdict' = DOMAIN vocdict \ {testwords[num]}
              /\ testwords' = testwords
              /\ IF num < Len(testwords)
                 THEN pc' = "train_ask" /\ num' = num + 1
                 ELSE pc' \in {"train_continue", "loop"} ]_vars

\* a drill over a full block that needed three rounds and in which an
\* answer was added has ended in AllCorrect
C10_Witness ==
    /\ pc = "loop"
    /\ out.msg = "allcorrect"
    /\ round = 3
    /\ Cardinality(Block) = NUMWORDS
    /\ correct = Block
    /\ current_voc_state.extra_trans # vstate0.extra_trans

\* the prompts the program blocks in
Prompts == {"menu", "switch", "train_ask", "train_modify", "train_continue",
            "exam_ask", "exam_return"}

\* C11: the state file is written exactly once, when the session ends by
\* quit or by an interrupt at any prompt, and then holds the state in
\* memory at that moment, corrections included; an interrupted drill or
\* exam round has changed neither level nor qualified.
C11_SavedOnce ==
    /\ [](pc # "exit" => writes = 0)
    /\ [](pc = "exit" =>
             /\ writes = 1
             /\ statefile = << [voc_file |-> voc_file, voc_states |-> voc_states] >>)
    /\ [][ pc' = "exit" =>
              /\ pc \in Prompts
              /\ writes' = writes + 1
              /\ statefile' = << [voc_file |-> voc_file, voc_states |-> voc_states] >>
              /\ voc_file' = voc_file
              /\ voc_states' = voc_states
              /\ (pc \in TrainPcs \cup ExamPcs =>
                     /\ Level(voc_file) = vstate0.level
                     /\ Qualified(voc_file) = vstate0.qualified) ]_vars
    /\ [][ pc # "exit" ]_vars

\* an interrupt at a word prompt of a drill, after a correction for v2 was
\* stored in this session: the file holds the correction, and v2 is still
\* at level 0 and not qualified
C11_Witness ==
    /\ pc = "exit"
    /\ out = [msg |-> "saved", at |-> "train_ask"]
    /\ writes = 1
    /\ statefile[1].voc_states["v2"].extra_trans # << >>
    /\ statefile[1].voc_states["v2"].level = 0
    /\ ~statefile[1].voc_states["v2"].qualified
    /\ statefile[1].voc_states = voc_states

\* the lines of the table at the 0-based indices lo .. hi - 1
Lines(table, lo, hi) == { table[i + 1] : i \in lo..(hi - 1) }

\* the entries of a dict
Items(d) == { << k, d[k] >> : k \in DOMAIN d }

\* C12: the block selected for level L holds exactly the lines of the
\* table at the indices L * NUMWORDS up to (not including) the smaller of
\* L * NUMWORDS + NUMWORDS and the length of the table: NUMWORDS entries
\* when the table is long enough, fewer or none otherwise.
C12_BlockIsSlice ==
    pc = "selected" =>
        LET lo == NUMWORDS * current_voc_state.level
            hi == IF lo + NUMWORDS < Len(voctable) THEN lo + NUMWORDS ELSE Len(voctable)
        IN  /\ Items(vocdict) = Lines(voctable, lo, hi)
            /\ Cardinality(DOMAIN vocdict) = (IF hi > lo THEN hi - lo ELSE 0)
            /\ (Len(voctable) >= lo + NUMWORDS => Cardinality(DOMAIN vocdict) = NUMWORDS)

\* C13: change_translation is idempotent: for every store, word and pair
\* (add, remove), the same call made twice in a row leaves the store that
\* the first call left.
C13_Idempotent ==
    /\ [](\A w \in StoreWords, add \in SUBSET Pool, remove \in SUBSET Pool :
             LET once == change_translation(current_voc_state.extra_trans, w, add, remove)
             IN  change_translation(once, w, add, remove) = once)
    /\ [][ (args.op = "change" /\ args' = args) => voc_states' = voc_states ]_vars

\* a call with overlapping, unequal add and remove sets was made on a word
\* that now has a removal, while another word has corrections too, and the
\* same call again leaves the store as it is
C13_Witness ==
    /\ args.op = "change"
    /\ args.add \cap args.remove # {}
    /\ args.add # args.remove
    /\ Removals(voc_file, args.engword) # {}
    /\ DOMAIN current_voc_state.extra_trans = StoreWords
    /\ change_translation(current_voc_state.extra_trans, args.engword,
                          args.add, args.remove) = current_voc_state.extra_trans

\* C14: reset_modifications(w) removes the entry of w and nothing else, and
\* changes nothing when w has no entry; get_modified_translations(w,
\* defaults) after it returns exactly set(defaults), whatever corrections
\* were stored before.
C14_ResetThenGet ==
    /\ [](\A w \in StoreWords, list \in Lists :
             get_modified_translations(
                 reset_modifications(current_voc_state.extra_trans, w), w, list)
               = set(list))
    /\ [][ args'.op = "reset" =>
              LET et  == current_voc_state.extra_trans
                  et2 == current_voc_state.extra_trans'
                  w   == args'.engword
              IN  /\ w \notin DOMAIN et2
                  /\ DOMAIN et2 = DOMAIN et \ {w}
                  /\ \A v \in DOMAIN et2 : et2[v] = et[v]
                  /\ (w \notin DOMAIN et => et2 = et) ]_vars
    /\ [][ (args.op = "reset" /\ args'.op = "get" /\ args'.engword = args.engword) =>
              translations' = set(args'.translations) ]_vars

\* a word that had an addition and a removal was reset, while the other
\* word keeps its corrections
C14_Witness ==
    /\ args.op = "reset"
    /\ args.had[1] # {}
    /\ args.had[2] # {}
    /\ args.engword \notin DOMAIN current_voc_state.extra_trans
    /\ current_voc_state.extra_trans # << >>

\* C15: after a wrong answer in a drill exactly one of the four decisions
\* is applied, 'do nothing' on an empty line, and it touches the entry of
\* the prompted word only.  Replacing a valid translation t by the answer a
\* leaves a valid, t not valid and every other translation as it was,
\* whether t was a default or an addition.
C15_OneDecision ==
    [][ pc = "train_modify" =>
          LET w  == testwords[num]
              a  == answer
              T  == translations
              D  == set(vocdict[w])
              A2 == entry(voc_states'[voc_file].extra_trans, w)[1]
              R2 == entry(voc_states'[voc_file].extra_trans, w)[2]
              T2 == (D \cup A2) \ R2
              d  == decision'
              et  == current_voc_state.extra_trans
              et2 == voc_states'[voc_file].extra_trans
          IN  /\ d.opt \in {"0", "a", "r"} \cup {str(n) : n \in 1..Cardinality(T)}
              /\ (d.inp = "" => d.opt = "0")
              /\ \A v \in (DOMAIN et \cup DOMAIN et2) \ {w} :
                     v \in DOMAIN et /\ v \in DOMAIN et2 /\ et2[v] = et[v]
              /\ (d.opt = "0" => et2 = et)
              /\ (d.opt = "a" =>
                     /\ T2 = T \cup {a}
                     /\ A2 = Additions(voc_file, w) \cup {a}
                     /\ R2 = Removals(voc_file, w) \ {a})
              /\ (d.opt = "r" => w \notin DOMAIN et2 /\ T2 = D)
              /\ (d.opt \notin {"0", "a", "r"} =>
                     /\ d.word \in T
                     /\ a \in T2
                     /\ d.word \notin T2
                     /\ T2 \ {a} = T \ {d.word}) ]_vars

\* the word of v2 had its earlier addition x replaced by the answer: x is
\* no default translation, it is now a removal, and the answer an addition
C15_Witness ==
    /\ voc_file = "v2"
    /\ pc = "train_continue"
    /\ decision.opt = "1" \/ decision.opt = "2" \/ decision.opt = "3"
    /\ decision.word = x
    /\ decision.word \notin set(vocdict[wordE])
    /\ Removals("v2", wordE) = {x}
    /\ Additions("v2", wordE) = {answer}

\* C16: a drill never changes the level, and changes qualified only when
\* it ends in AllCorrect, from false to true; after 'exit' at the training
\* menu level and qualified are what they were when the drill started.
C16_DrillFrame ==
    /\ [](pc \in TrainPcs =>
             /\ current_voc_state.level = vstate0.level
             /\ current_voc_state.qualified = vstate0.qualified)
    /\ []((pc = "loop" /\ out.msg = "exit") =>
             /\ current_voc_state.level = vstate0.level
             /\ current_voc_state.qualified = vstate0.qualified)
    /\ [][ (pc \in TrainPcs \/ pc' \in TrainPcs \/ out'.msg = "allcorrect") =>
              /\ voc_states'[voc_file].level = current_voc_state.level
              /\ (voc_states'[voc_file].qualified # current_voc_state.qualified =>
                     /\ ~current_voc_state.qualified
                     /\ voc_states'[voc_file].qualified
                     /\ pc' = "loop"
                     /\ out'.msg = "allcorrect") ]_vars

\* an unqualified trainee left a drill at the training menu after two or
\* more rounds, with some words answered correctly and a correction stored
C16_Witness ==
    /\ pc = "loop"
    /\ out.msg = "exit"
    /\ round >= 2
    /\ correct # {}
    /\ ~vstate0.qualified
    /\ ~current_voc_state.qualified
    /\ current_voc_state.extra_trans # vstate0.extra_trans

\* C17: from the fresh state, every exam at level L of a vocabulary comes
\* after a drill of that vocabulary at level L that ended in AllCorrect, so
\* every level below the current one was drilled; after a passed exam the
\* new level is not drilled yet and no exam is offered or started before a
\* drill at the new level has ended in AllCorrect.
C17_DrillBeforeExam ==
    /\ []((pc \in ExamPcs \/ pc = "exam_return") =>
             << voc_file, vstate0.level >> \in drilled)
    /\ [](\A f \in DOMAIN voc_states :
             /\ \A L \in 0..(Level(f) - 1) : << f, L >> \in drilled
             /\ (Qualified(f) => << f, Level(f) >> \in drilled))
    /\ [](\A d \in drilled : d[1] \in DOMAIN voc_states /\ d[2] <= Level(d[1]))
    /\ [](pc = "exam_return" =>
             /\ << voc_file, current_voc_state.level >> \notin drilled
             /\ ~current_voc_state.qualified)
    /\ []((pc = "menu" /\ accepts(main_menuopts, "", "e")) =>
             << voc_file, current_voc_state.level >> \in drilled)
    /\ [][ (pc' \in ExamPcs \/ pc' = "exam_return") =>
              << voc_file, voc_states'[voc_file].level >> \in drilled
                 \/ << voc_file, voc_states'[voc_file].level - 1 >> \in drilled ]_vars

\* the second exam of a vocabulary was passed: its levels 0 and 1 were
\* drilled, level 2 was not yet
C17_Witness ==
    /\ pc = "exam_return"
    /\ current_voc_state.level = 2
    /\ << voc_file, 0 >> \in drilled
    /\ << voc_file, 1 >> \in drilled
    /\ << voc_file, 2 >> \notin drilled

\* C18: a change_translation for word w on the current vocabulary changes
\* the entry of w in that vocabulary's _extra_trans and nothing else: the
\* entries of the other words, level and qualified, the other vocabulary's
\* VocState, and every set object that is not one of the two stored for w
\* (the argument objects and the two default objects among them) are as
\* before, and the objects stored for w are no argument or default object.
C18_OnlyThatEntry ==
    [][(pc = "objects" /\ args'.op = "change") =>
         LET f == voc_file
             w == args'.engword
             stored == {heap'.ext[f][w][1], heap'.ext[f][w][2]}
         IN  /\ voc_file' = f
             /\ \A g \in ObjFiles :
                   /\ voc_states'[g].level = voc_states[g].level
                   /\ voc_states'[g].qualified = voc_states[g].qualified
                   /\ g # f => /\ voc_states'[g] = voc_states[g]
                               /\ heap'.ext[g] = heap.ext[g]
             /\ DOMAIN heap'.ext[f] \ {w} = DOMAIN heap.ext[f] \ {w}
             /\ \A v \in DOMAIN heap.ext[f] \ {w} :
                   /\ heap'.ext[f][v] = heap.ext[f][v]
                   /\ voc_states'[f].extra_trans[v] = voc_states[f].extra_trans[v]
             /\ \A id \in DOMAIN heap.obj \ stored :
                   id \in DOMAIN heap'.obj /\ heap'.obj[id] = heap.obj[id]
             /\ stored \cap ({DefaultAdd, DefaultRemove} \cup CallerSets) = {}
             /\ heap'.obj[DefaultAdd] = {}
             /\ heap'.obj[DefaultRemove] = {}
    ]_vars

\* a correction with an argument omitted has been recorded for a word of
\* "v2" while the other word of "v2" and a word of "v1" have corrections
C18_Witness ==
    /\ pc = "objects"
    /\ args.op = "change"
    /\ args.omitted
    /\ voc_file = "v2"
    /\ DOMAIN voc_states["v2"].extra_trans = StoreWords
    /\ voc_states["v2"].extra_trans[args.engword][1] # {}
    /\ \E v \in StoreWords \ {args.engword} : voc_states["v2"].extra_trans[v][2] # {}
    /\ \E v \in DOMAIN voc_states["v1"].extra_trans :
          voc_states["v1"].extra_trans[v][1] # {}

\* C19 as stated, its last part: every non-empty vocabulary of fewer than
\* (MAXLEVEL+1) * NUMWORDS entries has a level in 0..MAXLEVEL whose block is
\* empty, so that its level can rise without a correct answer.
C19_ShortHasEmptyBlock ==
    (voctable # << >> /\ Len(voctable) < (MAXLEVEL + 1) * NUMWORDS)
       => \E L \in 0..MAXLEVEL : DOMAIN setup_test(L, voctable) = {}

\* C19: when the block of the level is empty and the vocabulary is not, a
\* drill ends at once with "all correct" and qualified set, and an exam ends
\* at once with "passed" and the level one higher, no word having been
\* prompted; an exam that raised the level prompted no word exactly when the
\* vocabulary has at most level * NUMWORDS entries, and a level in
\* 0..MAXLEVEL with an empty block exists exactly when the vocabulary has at
\* most MAXLEVEL * NUMWORDS entries.
C19_EmptyBlock ==
    /\ [][(/\ pc = "idle" /\ pc' # "idle"
            /\ voctable # << >>
            /\ DOMAIN setup_test(current_voc_state.level, voctable) = {})
           => /\ testwords' = << >>
              /\ hist' = << >>
              /\ \/ /\ pc' = "loop"
                    /\ out'.msg = "allcorrect"
                    /\ voc_states'[voc_file] =
                          [current_voc_state EXCEPT !.qualified = TRUE]
                 \/ /\ pc' = "exam_return"
                    /\ out'.msg = "passed"
                    /\ voc_states'[voc_file].level = current_voc_state.level + 1
                    /\ voc_states'[voc_file].extra_trans = current_voc_state.extra_trans
          ]_vars
    /\ [](pc = "exam_return" =>
             /\ current_voc_state.level = vstate0.level + 1
             /\ (testwords = << >>) <=> (Len(voctable) <= vstate0.level * NUMWORDS))
    /\ [](voctable # << >> =>
             ((\E L \in 0..MAXLEVEL : DOMAIN setup_test(L, voctable) = {})
                <=> Len(voctable) <= MAXLEVEL * NUMWORDS))

\* an exam over an empty block of a non-empty vocabulary has raised the
\* level, after a drill over the same empty block had ended "all correct"
C19_Witness ==
    /\ pc = "exam_return"
    /\ voctable # << >>
    /\ testwords = << >>
    /\ current_voc_state.level = vstate0.level + 1
    /\ << voc_file, vstate0.level >> \in drilled

\* C20: a round of a drill prompts the words that remain at its start one
\* after the other, each once, and ends after the last of them; the next
\* round is over the words still remaining, which are never more than
\* before; and as long as every finished round had a correct answer, round
\* number r starts with at most Cardinality(Block) - (r - 1) words, so that the
\* drill is "all correct" after at most Cardinality(Block) rounds.
C20_RoundsShrink ==
    /\ [](pc \in TrainPcs =>
             /\ numwords = Len(testwords)
             /\ Cardinality(set(testwords)) = Len(testwords)
             /\ DOMAIN vocdict \subseteq set(testwords)
             /\ (pc # "train_continue") =>
                   /\ num \in 1..Len(testwords)
                   /\ \A i \in num..Len(testwords) : testwords[i] \in DOMAIN vocdict
             /\ pc = "train_continue" =>
                   /\ num = Len(testwords)
                   /\ DOMAIN vocdict # {}
                   /\ (productive => Cardinality(DOMAIN vocdict) + round <= Cardinality(Block))
             /\ (productive => Len(testwords) + (round - 1) <= Cardinality(Block)))
    /\ []((pc = "loop" /\ out.msg = "allcorrect" /\ productive /\ testwords # << >>)
             => round <= Cardinality(Block))
    /\ [][/\ (pc \in {"train_check", "train_modify"} /\ pc' = "train_ask") =>
              /\ testwords' = testwords
              /\ num' = num + 1
              /\ round' = round
          /\ (pc \in {"train_check", "train_modify"} /\ pc' \in {"train_continue", "loop"}) =>
              /\ num = Len(testwords)
              /\ testwords' = testwords
          /\ (pc \in TrainPcs /\ pc' \in TrainPcs) =>
              DOMAIN vocdict' \subseteq DOMAIN vocdict
          /\ (pc = "train_continue" /\ pc' # "loop") =>
              /\ pc' = "train_ask"
              /\ num' = 1
              /\ vocdict' = vocdict
              /\ set(testwords') = DOMAIN vocdict
              /\ Len(testwords') = Cardinality(DOMAIN vocdict)
              /\ Len(testwords') <= Len(testwords)
              /\ (productive => Len(testwords') < Len(testwords))
          ]_vars

\* a drill over a block of three words has ended "all correct" in its third
\* round, every round having had one correct answer
C20_Witness ==
    /\ pc = "loop"
    /\ out.msg = "allcorrect"
    /\ productive
    /\ Cardinality(Block) = NUMWORDS
    /\ round = Cardinality(Block)
    /\ Len(testwords) = 1

====
